---- MODULE Spec2Model ----
(***************************************************************************)
(* Model of the Merkabah scoring-and-routing pipeline                      *)
(* (merkabah_whatsapp.py, platform_extractor_framework.py) and of the      *)
(* multi-backend orchestrator (merkabah_joinity.py).                       *)
(*                                                                         *)
(* Texts are TLA+ strings; Len, SubSeq and \o act on them as on Python     *)
(* strings.  Scores are integers in thousandths (0.125 is 125): every      *)
(* score the code returns has passed through round(x, 3).                  *)
(***************************************************************************)
EXTENDS Integers, Sequences, FiniteSets, TLC

VARIABLES
    halfUp,          \* direction round() takes on a binary double lying at an exact tie
    call,            \* scorer / classifier: the last call and its return value
    messages,        \* WhatsAppExtractor.messages
    harmony_scores,  \* WhatsAppExtractor.harmony_scores (timestamp -> score)
    ret,             \* WhatsAppExtractor: operation last called, its return value, file written
    source,          \* the lines of the file the last call read (none unless it was extract_from_txt)
    pc,              \* JoinityOrchestrator.orchestrate: position in the call
    env,             \* process environment: faces whose API key variable is set
    prompt,          \* orchestrate: argument prompt
    faces,           \* orchestrate: argument faces (after the None default)
    idx,             \* orchestrate: loop position in faces
    responses,       \* JoinityOrchestrator.responses
    harmony_score,   \* JoinityOrchestrator.harmony_score
    result,          \* orchestrate: the returned dict, or the exception that left it
    inflight,        \* requests.post calls issued and not yet returned
    sent,            \* faces whose HTTP request was issued in this round, in order
    seen,            \* per face, the query results obtained in this round
    nodes,           \* JoinityOrchestrator.nodes (face -> descriptor)
    process          \* one run of the merkabah_whatsapp.py command line: arguments, output, exit status

vars == <<halfUp, call, messages, harmony_scores, ret, source, pc, env, prompt,
          faces, idx, responses, harmony_score, result, inflight, sent, seen, nodes, process>>

scoreVars == <<call>>
extractorVars == <<messages, harmony_scores, ret, source>>
orchVars == <<pc, env, prompt, faces, idx, responses, harmony_score, result,
              inflight, sent, seen>>
cliVars == <<process>>
nodeVars == <<nodes>>

(***************************************************************************)
(* Bounds                                                                  *)
(***************************************************************************)
MaxTextLen == 3
MaxLines == 2
MaxFaces == 2

(***************************************************************************)
(* Python string primitives                                                *)
(***************************************************************************)
Char(s, i) == SubSeq(s, i, i)

UpperLetters == "ABCDEFGHIJKLMNOPQRSTUVWXYZ"
LowerLetters == "abcdefghijklmnopqrstuvwxyz"

\* str.lower() on one character
LowerChar(c) ==
    IF \E k \in 1..26 : Char(UpperLetters, k) = c
    THEN Char(LowerLetters, CHOOSE k \in 1..26 : Char(UpperLetters, k) = c)
    ELSE c

\* str.lower(), character by character
RECURSIVE Lower(_)
Lower(s) ==
    IF Len(s) <= 1 THEN LowerChar(s)
    ELSE LET half == Len(s) \div 2
         IN  Lower(SubSeq(s, 1, half)) \o Lower(SubSeq(s, half + 1, Len(s)))

\* str.isspace() on one character
IsSpace(c) == c \in {" ", "\t", "\n", "\r", "\f"}

\* `word in text`
Contains(word, text) ==
    \E i \in 1..(Len(text) - Len(word) + 1) : SubSeq(text, i, i + Len(word) - 1) = word

\* len(text.split()): the number of maximal runs of non-whitespace
WordCount(text) ==
    Cardinality({i \in 1..Len(text) :
                    /\ ~IsSpace(Char(text, i))
                    /\ (i = 1 \/ IsSpace(Char(text, i - 1)))})

\* str.strip()
Strip(s) ==
    LET keep == {i \in 1..Len(s) : ~IsSpace(Char(s, i))}
    IN  IF keep = {} THEN ""
        ELSE SubSeq(s, CHOOSE i \in keep : \A j \in keep : i <= j,
                       CHOOSE i \in keep : \A j \in keep : j <= i)

\* s * n
RECURSIVE Rep(_, _)
Rep(s, n) ==
    IF n = 0 THEN ""
    ELSE LET half == Rep(s, n \div 2)
         IN  IF n % 2 = 0 THEN half \o half ELSE half \o half \o s

EmptyMap == [k \in {} |-> 0]

Min2(a, b) == IF a <= b THEN a ELSE b
Max2(a, b) == IF a >= b THEN a ELSE b

\* round(n / d, 3) in thousandths, n and d non-negative.  Off a tie the double
\* rounds to the nearest thousandth; at an exact tie the representation error
\* of the double decides, and halfUp is the direction it takes.
Round3(n, d) ==
    LET q == n \div d
        r == n % d
    IN  IF 2 * r < d THEN q
        ELSE IF 2 * r > d THEN q + 1
        ELSE IF halfUp THEN q + 1 ELSE q

(***************************************************************************)
(* WhatsAppExtractor.calculate_harmony_score                               *)
(***************************************************************************)
positive_words == {"good", "great", "love", "happy", "yes", "thanks", "please"}
negative_words == {"bad", "hate", "angry", "sad", "no", "never", "sorry"}

PunctuationCount(message) ==
    Cardinality({i \in 1..Len(message) : Char(message, i) \in {".", ",", "!", "?", ";", ":"}})

\* the four sub-scores of calculate_harmony_score, in thousandths
length_score(message) == Min2(1000, 5 * Len(message))

word_score(message) == Min2(1000, 20 * WordCount(message))

\* positive_count taken as the number of occurrences of lexicon words
positive_count_occurrences(lowered) ==
    Cardinality({<<w, i>> \in positive_words \X (1..Len(lowered)) :
                    /\ i + Len(w) - 1 <= Len(lowered)
                    /\ SubSeq(lowered, i, i + Len(w) - 1) = w})

\* sum(1 for word in positive_words if word in message_lower)
positive_count(lowered) == Cardinality({w \in positive_words : Contains(w, lowered)})

negative_count(lowered) == Cardinality({w \in negative_words : Contains(w, lowered)})

\* sentiment_score without the 0.5 midpoint
sentiment_score_without_midpoint(message) ==
    LET lowered == Lower(message)
    IN  Max2(0, Min2(1000, 100 * (positive_count(lowered) - negative_count(lowered))))

sentiment_score(message) ==
    LET lowered == Lower(message)
    IN  Max2(0, Min2(1000, 100 * (positive_count(lowered) - negative_count(lowered)) + 500))

punctuation_score(message) == Min2(1000, 200 * PunctuationCount(message))

\* calculate_harmony_score with the punctuation sub-score left uncapped
calculate_harmony_score_uncapped(message) ==
    Round3(length_score(message) + word_score(message) + sentiment_score(message)
              + 200 * PunctuationCount(message), 4)

calculate_harmony_score(message) ==
    Round3(length_score(message) + word_score(message) + sentiment_score(message)
              + punctuation_score(message), 4)

(***************************************************************************)
(* PlatformExtractor.calculate_harmony and assign_face                     *)
(***************************************************************************)
pe_positive_words == {"good", "great", "love", "happy", "yes", "thanks"}
pe_negative_words == {"bad", "hate", "angry", "sad", "no", "never"}

\* calculate_harmony with a target length of 100 characters
pe_calculate_harmony_target_100(message) ==
    LET lowered == Lower(message)
        positive == Cardinality({w \in pe_positive_words : Contains(w, lowered)})
        negative == Cardinality({w \in pe_negative_words : Contains(w, lowered)})
        sentiment == Max2(0, Min2(1000, 100 * (positive - negative) + 500))
    IN  Round3(Min2(1000, 10 * Len(message)) + Min2(1000, 20 * WordCount(message))
                  + sentiment + Min2(1000, 200 * PunctuationCount(message)), 4)

pe_calculate_harmony(message) ==
    LET lowered == Lower(message)
        positive == Cardinality({w \in pe_positive_words : Contains(w, lowered)})
        negative == Cardinality({w \in pe_negative_words : Contains(w, lowered)})
        sentiment == Max2(0, Min2(1000, 100 * (positive - negative) + 500))
    IN  Round3(Min2(1000, 5 * Len(message)) + Min2(1000, 20 * WordCount(message))
                  + sentiment + Min2(1000, 200 * PunctuationCount(message)), 4)

\* assign_face with inclusive thresholds
assign_face_inclusive(harmony) ==
    IF harmony >= 800 THEN "EAGLE"
    ELSE IF harmony >= 600 THEN "LION"
    ELSE IF harmony >= 400 THEN "OX"
    ELSE "MAN"

assign_face(harmony) ==
    IF harmony > 800 THEN "EAGLE"
    ELSE IF harmony > 600 THEN "LION"
    ELSE IF harmony > 400 THEN "OX"
    ELSE "MAN"

\* WhatsAppExtractor.pipe_through_merkabah: the returned dict without its clock reading
pipe_through_merkabah(message) ==
    LET harmony == calculate_harmony_score(message)
        route == IF harmony > 800 THEN <<"EAGLE", "ARCHIVE">>
                 ELSE IF harmony > 600 THEN <<"LION", "VERIFY">>
                 ELSE IF harmony > 400 THEN <<"OX", "PROCESS">>
                 ELSE <<"MAN", "REVIEW">>
    IN  [message |-> message, harmony_score |-> harmony,
         assigned_face |-> route[1], action |-> route[2]]

(***************************************************************************)
(* WhatsAppExtractor.extract_from_txt: the line pattern, applied with      *)
(* re.match and so anchored at the start of the line only.  In order: "[", *)
(* two digits, ":", two digits, ",", optional whitespace, a date of the    *)
(* shape dd/dd/dddd, "]", optional whitespace, one or more characters      *)
(* other than ":" (the contact), ":", optional whitespace, and the rest of *)
(* the line up to its newline (the message).                               *)
(***************************************************************************)
IsDigit(c) == c \in {"0", "1", "2", "3", "4", "5", "6", "7", "8", "9"}

\* the characters of line at from .. from + n - 1 exist and are all digits
DigitsAt(line, from, n) ==
    /\ from + n - 1 <= Len(line)
    /\ \A k \in from..(from + n - 1) : IsDigit(Char(line, k))

\* the character of line at position i exists and is c
CharIs(line, i, c) == i <= Len(line) /\ Char(line, i) = c

\* the position a greedy \s* started at position i stops at
SkipSpace(line, i) ==
    LET stops == {j \in i..Len(line) : ~IsSpace(Char(line, j))}
    IN  IF stops = {} THEN Max2(i, Len(line) + 1)
        ELSE CHOOSE j \in stops : \A k \in stops : j <= k

\* the first position at or after i holding character c, or 0
FirstIndex(line, i, c) ==
    LET at == {j \in i..Len(line) : Char(line, j) = c}
    IN  IF at = {} THEN 0 ELSE CHOOSE j \in at : \A k \in at : j <= k

NoMatch == [matched |-> FALSE]

\* re.match(pattern, line): the four groups, or no match
MatchLine(line) ==
    IF ~ /\ CharIs(line, 1, "[")
         /\ DigitsAt(line, 2, 2)
         /\ CharIs(line, 4, ":")
         /\ DigitsAt(line, 5, 2)
         /\ CharIs(line, 7, ",")
    THEN NoMatch
    ELSE
    LET d == SkipSpace(line, 8)
    IN  IF ~ /\ DigitsAt(line, d, 2)
             /\ CharIs(line, d + 2, "/")
             /\ DigitsAt(line, d + 3, 2)
             /\ CharIs(line, d + 5, "/")
             /\ DigitsAt(line, d + 6, 4)
             /\ CharIs(line, d + 10, "]")
        THEN NoMatch
        ELSE
        LET first == d + 11
            colon == FirstIndex(line, first, ":")
        IN  IF colon <= first    \* no colon, or nothing for [^:]+ to take
            THEN NoMatch
            ELSE
            LET \* \s* is greedy and gives back one character when it has taken them all
                c0 == Min2(SkipSpace(line, first), colon - 1)
                m0 == SkipSpace(line, colon + 1)
                nl == FirstIndex(line, m0, "\n")
                m1 == IF nl = 0 THEN Len(line) ELSE nl - 1
            IN  [matched |-> TRUE,
                 time_str |-> SubSeq(line, 2, 6),
                 date_str |-> SubSeq(line, d, d + 9),
                 contact |-> SubSeq(line, c0, colon - 1),
                 message |-> SubSeq(line, m0, m1)]

\* the dict appended for one matching line
MessageOf(m) ==
    [timestamp |-> m.date_str \o " " \o m.time_str,
     contact |-> Strip(m.contact),
     message |-> Strip(m.message),
     length |-> Len(m.message),
     word_count |-> WordCount(m.message)]

\* the loop over lines, leaving at the first line that does not match
RECURSIVE ParseLines_until_mismatch(_)
ParseLines_until_mismatch(lines) ==
    IF lines = <<>> THEN <<>>
    ELSE LET match == MatchLine(Head(lines))
         IN  IF match.matched
             THEN <<MessageOf(match)>> \o ParseLines_until_mismatch(Tail(lines))
             ELSE <<>>

\* the loop over lines of extract_from_txt
RECURSIVE ParseLines(_)
ParseLines(lines) ==
    IF lines = <<>> THEN <<>>
    ELSE LET match == MatchLine(Head(lines))
         IN  IF match.matched
             THEN <<MessageOf(match)>> \o ParseLines(Tail(lines))
             ELSE ParseLines(Tail(lines))

\* f.readlines() of an export whose lines are the entries, each in the
\* documented shape "[HH:MM, DD/MM/YYYY] Contact: Message"
Render(entry) ==
    IF entry.kind = "message"
    THEN "[" \o entry.time \o ", " \o entry.date \o "] " \o entry.sender \o ": "
             \o entry.body \o "\n"
    ELSE entry.text \o "\n"

ReadLines(entries) == [i \in 1..Len(entries) |-> Render(entries[i])]

(***************************************************************************)
(* WhatsAppExtractor.analyze_messages                                      *)
(***************************************************************************)
\* the loop storing one score per message under the message's timestamp
RECURSIVE StoreScores(_, _)
StoreScores(scores, msgs) ==
    IF msgs = <<>> THEN scores
    ELSE LET msg == Head(msgs)
             harmony == calculate_harmony_score(msg.message)
             stored == [t \in DOMAIN scores \cup {msg.timestamp} |->
                           IF t = msg.timestamp THEN harmony ELSE scores[t]]
         IN  StoreScores(stored, Tail(msgs))

\* sum(f.values())
RECURSIVE SumValues(_)
SumValues(f) ==
    IF DOMAIN f = {} THEN 0
    ELSE LET k == CHOOSE x \in DOMAIN f : TRUE
         IN  f[k] + SumValues([x \in DOMAIN f \ {k} |-> f[x]])

MaxValue(f) == CHOOSE v \in {f[k] : k \in DOMAIN f} : \A k \in DOMAIN f : f[k] <= v
MinValue(f) == CHOOSE v \in {f[k] : k \in DOMAIN f} : \A k \in DOMAIN f : v <= f[k]

\* the returned dict and the value self.harmony_scores has afterwards
analyze_messages(held, scores) ==
    IF held = <<>>
    THEN [value |-> [status |-> "error", message |-> "No messages extracted"],
          harmony_scores |-> scores]
    ELSE LET lengths == [i \in 1..Len(held) |-> held[i].length]
             words == [i \in 1..Len(held) |-> held[i].word_count]
             stored == StoreScores(scores, held)
         IN  [value |->
                [total_messages |-> Len(held),
                 total_characters |-> SumValues(lengths),
                 total_words |-> SumValues(words),
                 average_message_length |-> <<SumValues(lengths), Len(held)>>,
                 contacts |-> {held[i].contact : i \in 1..Len(held)},
                 harmony_scores |-> EmptyMap,
                 average_harmony |-> Round3(SumValues(stored), Cardinality(DOMAIN stored)),
                 max_harmony |-> MaxValue(stored),
                 min_harmony |-> MinValue(stored)],
              harmony_scores |-> stored]

(***************************************************************************)
(* WhatsAppExtractor.export_to_mega: the JSON document                     *)
(*                                                                         *)
(* json.dump writes a float as its shortest decimal text (0.108, 0.2, 1.0) *)
(* and an int as its digits; json.load reads them back.  Strings, lists    *)
(* and dicts with string keys keep their shape.                            *)
(***************************************************************************)
DigitChars == "0123456789"

DigitValue(c) == (CHOOSE k \in 1..10 : Char(DigitChars, k) = c) - 1

\* repr(float) of a score of n thousandths
FloatText(n) ==
    LET whole == ToString(n \div 1000)
        frac == n % 1000
        d1 == Char(DigitChars, (frac \div 100) + 1)
        d2 == Char(DigitChars, ((frac \div 10) % 10) + 1)
        d3 == Char(DigitChars, (frac % 10) + 1)
    IN  IF frac % 100 = 0 THEN whole \o "." \o d1
        ELSE IF frac % 10 = 0 THEN whole \o "." \o d1 \o d2
        ELSE whole \o "." \o d1 \o d2 \o d3

\* int(text) for a run of digits
RECURSIVE IntOfText(_)
IntOfText(text) ==
    IF text = "" THEN 0
    ELSE 10 * IntOfText(SubSeq(text, 1, Len(text) - 1)) + DigitValue(Char(text, Len(text)))

\* float(text) in thousandths, for a decimal text of at most three decimals
FloatOfText(text) ==
    LET dot == FirstIndex(text, 1, ".")
        decimals == SubSeq(text, dot + 1, Len(text)) \o Rep("0", 3 - (Len(text) - dot))
    IN  1000 * IntOfText(SubSeq(text, 1, dot - 1)) + IntOfText(decimals)

\* the analysis object as JSON: the error dict, or the aggregate with every
\* number as text (average_message_length, a quotient, is kept as its pair)
AnalysisJson(analysis) ==
    IF "status" \in DOMAIN analysis THEN analysis
    ELSE [total_messages |-> ToString(analysis.total_messages),
          total_characters |-> ToString(analysis.total_characters),
          total_words |-> ToString(analysis.total_words),
          average_message_length |-> analysis.average_message_length,
          contacts |-> analysis.contacts,
          harmony_scores |-> analysis.harmony_scores,
          average_harmony |-> FloatText(analysis.average_harmony),
          max_harmony |-> FloatText(analysis.max_harmony),
          min_harmony |-> FloatText(analysis.min_harmony)]

\* json.dump(export_data)
JsonDump(export_data) ==
    [extracted_at |-> export_data.extracted_at,
     messages |-> [i \in 1..Len(export_data.messages) |->
                      [export_data.messages[i] EXCEPT
                          !.length = ToString(@), !.word_count = ToString(@)]],
     harmony_scores |-> [t \in DOMAIN export_data.harmony_scores |->
                            FloatText(export_data.harmony_scores[t])],
     analysis |-> AnalysisJson(export_data.analysis)]

\* json.load of a written document
JsonLoad(document) ==
    [extracted_at |-> document.extracted_at,
     messages |-> [i \in 1..Len(document.messages) |->
                      [document.messages[i] EXCEPT
                          !.length = IntOfText(@), !.word_count = IntOfText(@)]],
     harmony_scores |-> [t \in DOMAIN document.harmony_scores |->
                            FloatOfText(document.harmony_scores[t])],
     analysis |->
        IF "status" \in DOMAIN document.analysis THEN document.analysis
        ELSE [document.analysis EXCEPT
                 !.total_messages = IntOfText(@),
                 !.total_characters = IntOfText(@),
                 !.total_words = IntOfText(@),
                 !.average_harmony = FloatOfText(@),
                 !.max_harmony = FloatOfText(@),
                 !.min_harmony = FloatOfText(@)]]

NotWritten == [extracted_at |-> "none"]

\* WhatsAppExtractor.export_to_mega(output_path): the returned dict (without
\* size, the length of the JSON text), the document written, and the value
\* self.harmony_scores has afterwards.  export_data holds self.harmony_scores
\* itself, the dict analyze_messages then stores into, so the document shows
\* the scores as they are after the analysis.
export_to_mega(held, scores, writable) ==
    LET analysed == analyze_messages(held, scores)
        export_data == [extracted_at |-> "utcnow",
                        messages |-> held,
                        harmony_scores |-> analysed.harmony_scores,
                        analysis |-> analysed.value]
    IN  IF writable
        THEN [value |-> [status |-> "success", exported_to |-> "output_path"],
              written |-> JsonDump(export_data),
              harmony_scores |-> analysed.harmony_scores]
        ELSE [value |-> [status |-> "error", message |-> "write error"],
              written |-> NotWritten,
              harmony_scores |-> analysed.harmony_scores]

(***************************************************************************)
(* Inputs of the extractor                                                 *)
(***************************************************************************)
Message(time, sender, body) ==
    [kind |-> "message", time |-> time, date |-> "01/02/2023", sender |-> sender,
     body |-> body]

Other(text) == [kind |-> "other", text |-> text]

Entries ==
    { Message("14:05", "Alice", "Hello there!"),
      Message("14:05", "Bob", "no"),
      Message("14:06", "Mum Mobile", "ok: yes, thanks "),
      Other("Messages are end-to-end encrypted"),
      Other("[14:07, 01/02/2023] Alice joined") }

RECURSIVE EntrySeqs(_)
EntrySeqs(n) ==
    IF n = 0 THEN {<<>>}
    ELSE LET shorter == EntrySeqs(n - 1)
         IN  shorter \cup {Append(es, e) : es \in shorter, e \in Entries}

Files ==
    {[state |-> "missing", entries |-> <<>>], [state |-> "unreadable", entries |-> <<>>]}
        \cup {[state |-> "ok", entries |-> es] : es \in EntrySeqs(MaxLines)}

PipeTexts == {"", "no", "Hello there!"}

\* the messages the loop over the lines builds, for each readable input file
\* (a table, so that each file is parsed once)
ParsedFile == [entries \in EntrySeqs(MaxLines) |-> ParseLines(ReadLines(entries))]

\* extract_from_txt that empties self.messages when the file cannot be read
extract_from_txt_clearing(file, held) ==
    IF file.state = "missing"
    THEN [value |-> [status |-> "error", message |-> "File not found"], messages |-> held]
    ELSE IF file.state = "unreadable"
    THEN [value |-> [status |-> "error", message |-> "decode error"], messages |-> <<>>]
    ELSE LET parsed == ParsedFile[file.entries]
         IN  [value |-> [status |-> "success", messages_extracted |-> Len(parsed)],
              messages |-> parsed]

\* WhatsAppExtractor.extract_from_txt(file_path): the returned dict and the
\* value self.messages has afterwards
extract_from_txt(file, held) ==
    IF file.state = "missing"
    THEN [value |-> [status |-> "error", message |-> "File not found"], messages |-> held]
    ELSE IF file.state = "unreadable"
    THEN [value |-> [status |-> "error", message |-> "decode error"], messages |-> held]
    ELSE LET parsed == ParsedFile[file.entries]
         IN  [value |-> [status |-> "success", messages_extracted |-> Len(parsed)],
              messages |-> parsed]

(***************************************************************************)
(* Inputs of the scorer and the classifier                                 *)
(***************************************************************************)
Alphabet == {"n", "o", "O", " ", "!", "a"}

RECURSIVE StringsUpTo(_)
StringsUpTo(n) ==
    IF n = 0 THEN {""}
    ELSE LET shorter == StringsUpTo(n - 1)
         IN  shorter \cup {s \o c : s \in shorter, c \in Alphabet}

SampleTexts ==
    { "Thanks! Great, great, great.",
      "Hello there!",
      "please",
      "Please reply",
      "sorry, no",
      "bad hate angry sad no never sorry",
      "I KNOW: yes, thanks; love it. Good? Great!",
      Rep("a ", 60),
      Rep("x", 250),
      Rep("!", 18),
      Rep("yes, thanks. ", 12),
      Rep("so happy, yes; we love it. ", 9),
      Rep("good great love happy yes thanks please! ", 8) }

Texts == StringsUpTo(MaxTextLen) \cup SampleTexts

Scores == 0..1000

\* the argument handed to the function under test, before the call
Argument(text, score) ==
    [op |-> "argument", text |-> text, score |-> score, face |-> "", action |-> ""]

InitScore == call \in {Argument(text, 0) : text \in Texts} \cup {Argument("", s) : s \in Scores}

\* WhatsAppExtractor.calculate_harmony_score(text)
CallHarmonyScore ==
    /\ call.op = "argument"
    /\ call' = [call EXCEPT !.op = "calculate_harmony_score",
                            !.score = calculate_harmony_score(call.text)]

\* PlatformExtractor.calculate_harmony(text)
CallCalculateHarmony ==
    /\ call.op = "argument"
    /\ call' = [call EXCEPT !.op = "calculate_harmony",
                            !.score = pe_calculate_harmony(call.text)]

\* PlatformExtractor.assign_face(harmony)
CallAssignFace ==
    /\ call.op = "argument"
    /\ call' = [call EXCEPT !.op = "assign_face", !.face = assign_face(call.score)]

\* WhatsAppExtractor.pipe_through_merkabah(text)
CallPipe ==
    /\ call.op = "argument"
    /\ LET r == pipe_through_merkabah(call.text)
       IN  call' = [op |-> "pipe_through_merkabah", text |-> r.message,
                    score |-> r.harmony_score, face |-> r.assigned_face,
                    action |-> r.action]

(***************************************************************************)
(* State after construction                                                *)
(***************************************************************************)
NoReturn == [op |-> "none", value |-> [status |-> "none"]]

\* WhatsAppExtractor.__init__
InitExtractor ==
    /\ messages = <<>>
    /\ harmony_scores = EmptyMap
    /\ ret = NoReturn
    /\ source = <<>>

NoResult == [status |-> "none"]

\* no command line run is modelled
NoProcess == [state |-> "none"]

\* a descriptor of self.nodes; api_key "" stands for a dict without that key
Node(model, endpoint, specialty, api_key) ==
    [model |-> model, endpoint |-> endpoint, specialty |-> specialty, api_key |-> api_key]

DefaultNodes ==
    [MAN |-> Node("gpt-4", "openai", "Witness/Interaction", ""),
     LION |-> Node("claude-3", "anthropic", "Judge/Verification", ""),
     OX |-> Node("mistral", "ollama", "Servant/Processing", ""),
     EAGLE |-> Node("deepseek", "deepseek", "Seer/Prediction", "")]

\* JoinityOrchestrator.__init__
InitOrchestrator ==
    /\ nodes = DefaultNodes
    /\ pc = "idle"
    /\ prompt = ""
    /\ faces = <<>>
    /\ idx = 1
    /\ responses = EmptyMap
    /\ harmony_score = 0
    /\ result = NoResult
    /\ inflight = {}
    /\ sent = <<>>
    /\ seen = EmptyMap

(***************************************************************************)
(* Specification of the scorer and the classifier as pure functions        *)
(***************************************************************************)
InitPure ==
    /\ halfUp \in BOOLEAN
    /\ InitScore
    /\ InitExtractor
    /\ InitOrchestrator
    /\ env = {}
    /\ process = NoProcess

NextPure ==
    /\ \/ CallHarmonyScore
       \/ CallCalculateHarmony
       \/ CallAssignFace
       \/ CallPipe
    /\ UNCHANGED <<halfUp, extractorVars, orchVars, cliVars, nodeVars>>

SpecPure == InitPure /\ [][NextPure]_vars

Tiers == {"ARCHIVE", "VERIFY", "PROCESS", "REVIEW"}

\* the tier each face stands for (comments of assign_face, pipe_through_merkabah)
TierOfFace(face) ==
    CASE face = "EAGLE" -> "ARCHIVE"
      [] face = "LION" -> "VERIFY"
      [] face = "OX" -> "PROCESS"
      [] face = "MAN" -> "REVIEW"

\* C1: every harmony score returned by calculate_harmony_score (directly or
\* through pipe_through_merkabah) and by PlatformExtractor.calculate_harmony
\* lies in [0, 1], for every text, the empty one included.
C1_ScoreInUnitInterval ==
    call.op \in {"calculate_harmony_score", "calculate_harmony", "pipe_through_merkabah"}
        => call.score \in 0..1000

\* a text longer than 200 characters whose sub-scores are all capped scores exactly 1.0
C1_Witness ==
    /\ call.op = "calculate_harmony_score"
    /\ Len(call.text) > 200
    /\ call.score = 1000

\* C2: the classification returns exactly one tier and the bands are
\* ARCHIVE iff s > 0.8, VERIFY iff 0.6 < s <= 0.8, PROCESS iff 0.4 < s <= 0.6,
\* REVIEW iff s <= 0.4.
C2_TierBands ==
    call.op \in {"assign_face", "pipe_through_merkabah"} =>
        LET s == call.score
            tier == TierOfFace(call.face)
        IN  /\ call.face \in {"EAGLE", "LION", "OX", "MAN"}
            /\ tier \in Tiers
            /\ call.op = "pipe_through_merkabah" => call.action = tier
            /\ tier = "ARCHIVE" <=> s > 800
            /\ tier = "VERIFY" <=> (600 < s /\ s <= 800)
            /\ tier = "PROCESS" <=> (400 < s /\ s <= 600)
            /\ tier = "REVIEW" <=> s <= 400
            /\ s = 810 => tier = "ARCHIVE"
            /\ s = 800 => tier = "VERIFY"
            /\ s = 600 => tier = "PROCESS"
            /\ s = 400 => tier = "REVIEW"
            /\ s = 0 => tier = "REVIEW"

\* the boundary score 0.8 has been classified, and fell into VERIFY
C2_Witness ==
    /\ call.op = "assign_face"
    /\ call.score = 800
    /\ call.face = "LION"

\* C12: the harmony score of the empty string is exactly 0.125: the length,
\* word and punctuation sub-scores are 0, the sentiment sub-score is the 0.5
\* midpoint, and the four are averaged with equal weights.
C12_EmptyStringScore ==
    (call.op \in {"calculate_harmony_score", "pipe_through_merkabah"} /\ call.text = "") =>
        /\ call.score = 125
        /\ length_score(call.text) = 0
        /\ word_score(call.text) = 0
        /\ punctuation_score(call.text) = 0
        /\ sentiment_score(call.text) = 500
        /\ 4 * call.score = 0 + 0 + 500 + 0

C12_Witness ==
    /\ call.op = "calculate_harmony_score"
    /\ call.text = ""
    /\ call.score = 125

ThanksGreat == "Thanks! Great, great, great."

\* lexicon hits and sentiment sub-score of each sample text
SampleHits ==
    [t \in SampleTexts |->
        [positive |-> positive_count(Lower(t)),
         negative |-> negative_count(Lower(t)),
         sentiment |-> sentiment_score(t)]]

\* C13 as stated: the sentiment sub-score of "Thanks! Great, great, great."
\* is saturated at 1.0 and contributes 1.0 x 0.25 to the harmony score.
C13_SentimentSaturated ==
    (call.op = "calculate_harmony_score" /\ call.text = ThanksGreat) =>
        /\ sentiment_score(call.text) = 1000
        /\ 4 * call.score = length_score(call.text) + word_score(call.text)
                               + 1000 + punctuation_score(call.text)

\* C13: the sentiment sub-score of "Thanks! Great, great, great." (two
\* positive lexicon words, no negative one) is 0.7 and contributes
\* 0.7 x 0.25 to its harmony score of 0.43; the sub-score never exceeds 1.0,
\* does not decrease when the number of positive lexicon words rises with
\* the negative ones fixed, and is 1.0 from a surplus of five positive words.
C13_SentimentOfHits ==
    call.op = "calculate_harmony_score" =>
        LET lowered == Lower(call.text)
            positive == positive_count(lowered)
            negative == negative_count(lowered)
            sentiment == sentiment_score(call.text)
        IN  /\ sentiment \in 0..1000
            /\ call.text = ThanksGreat =>
                  /\ positive = 2 /\ negative = 0
                  /\ sentiment = 700
                  /\ 4 * call.score = length_score(call.text) + word_score(call.text)
                                         + 700 + punctuation_score(call.text)
                  /\ call.score = 430
            /\ \A t \in SampleTexts :
                  (SampleHits[t].negative = negative /\ SampleHits[t].positive <= positive)
                      => SampleHits[t].sentiment <= sentiment
            /\ positive - negative >= 5 => sentiment = 1000
            /\ positive - negative < 5 => sentiment < 1000

C13_Witness ==
    /\ call.op = "calculate_harmony_score"
    /\ call.text = ThanksGreat
    /\ call.score = 430

\* the two pipelines on the text of the call: the one that was called gave
\* call.score and call.face, the other is computed from call.text
PipelinesAgree ==
    /\ call.op = "pipe_through_merkabah" =>
          /\ pe_calculate_harmony(call.text) = call.score
          /\ assign_face(pe_calculate_harmony(call.text)) = call.face
    /\ call.op = "calculate_harmony" =>
          /\ pipe_through_merkabah(call.text).harmony_score = call.score
          /\ pipe_through_merkabah(call.text).assigned_face = assign_face(call.score)

\* C23 as stated: for every text that contains neither "please" nor "sorry"
\* the framework pipeline and pipe_through_merkabah give the same score and
\* the same face.
C23_AgreeWithoutTheTwoWords ==
    (~Contains("please", call.text) /\ ~Contains("sorry", call.text)) => PipelinesAgree

\* C23, amended: the same for every text that contains neither word in any
\* letter case, the lexicons being matched against the lower-cased text.
C23_AgreeWithoutTheTwoWordsInAnyCase ==
    (~Contains("please", Lower(call.text)) /\ ~Contains("sorry", Lower(call.text)))
        => PipelinesAgree

\* a text of mixed case with lexicon words, routed above REVIEW by both
C23_Witness ==
    /\ call.op = "pipe_through_merkabah"
    /\ call.text = "I KNOW: yes, thanks; love it. Good? Great!"
    /\ call.face # "MAN"
    /\ assign_face(pe_calculate_harmony(call.text)) = call.face

(***************************************************************************)
(* Specification of one WhatsAppExtractor                                  *)
(***************************************************************************)
Init ==
    /\ halfUp \in BOOLEAN
    /\ call = Argument("", 0)
    /\ InitExtractor
    /\ InitOrchestrator
    /\ env = {}
    /\ process = NoProcess

ExtractFromTxt ==
    \E file \in Files :
        LET r == extract_from_txt(file, messages)
        IN  /\ messages' = r.messages
            /\ ret' = [op |-> "extract_from_txt", value |-> r.value]
            /\ source' = file.entries
            /\ UNCHANGED harmony_scores

AnalyzeMessages ==
    LET r == analyze_messages(messages, harmony_scores)
    IN  /\ harmony_scores' = r.harmony_scores
        /\ ret' = [op |-> "analyze_messages", value |-> r.value]
        /\ source' = <<>>
        /\ UNCHANGED messages

\* calculate_harmony_score(text), called on the extractor
CalculateHarmonyScore ==
    \E text \in PipeTexts :
        /\ ret' = [op |-> "calculate_harmony_score", argument |-> text,
                   value |-> calculate_harmony_score(text)]
        /\ source' = <<>>
        /\ UNCHANGED <<messages, harmony_scores>>

\* pipe_through_merkabah that also files the score in self.harmony_scores
PipeThroughMerkabah_recording ==
    \E text \in PipeTexts :
        LET r == pipe_through_merkabah(text)
        IN  /\ ret' = [op |-> "pipe_through_merkabah", value |-> r]
            /\ harmony_scores' = [t \in DOMAIN harmony_scores \cup {"utcnow"} |->
                                     IF t = "utcnow" THEN r.harmony_score
                                     ELSE harmony_scores[t]]
            /\ source' = <<>>
            /\ UNCHANGED messages

PipeThroughMerkabah ==
    \E text \in PipeTexts :
        /\ ret' = [op |-> "pipe_through_merkabah", value |-> pipe_through_merkabah(text)]
        /\ source' = <<>>
        /\ UNCHANGED <<messages, harmony_scores>>

\* export_to_mega; written is the document json.dump left in the output file
ExportToMega ==
    \E writable \in BOOLEAN :
        LET r == export_to_mega(messages, harmony_scores, writable)
        IN  /\ harmony_scores' = r.harmony_scores
            /\ ret' = [op |-> "export_to_mega", value |-> r.value, written |-> r.written]
            /\ source' = <<>>
            /\ UNCHANGED messages

Next ==
    /\ \/ ExtractFromTxt
       \/ AnalyzeMessages
       \/ ExportToMega
       \/ CalculateHarmonyScore
       \/ PipeThroughMerkabah
    /\ UNCHANGED <<halfUp, scoreVars, orchVars, cliVars, nodeVars>>

Spec == Init /\ [][Next]_vars

IsMessage(entry) == entry.kind = "message"

\* C8: a successful extract_from_txt holds exactly one message per line of the
\* shape "[HH:MM, DD/MM/YYYY] Sender: Body", in input order, with the sender
\* and the body of that line, none for any other line, and reports their number.
C8_OneMessagePerMatchingLine ==
    (ret.op = "extract_from_txt" /\ ret.value.status = "success") =>
        LET expected == SelectSeq(source, IsMessage)
        IN  /\ Len(messages) = Len(expected)
            /\ ret.value.messages_extracted = Len(expected)
            /\ \A i \in 1..Len(expected) :
                  /\ messages[i].contact = expected[i].sender
                  /\ messages[i].message = Strip(expected[i].body)
                  /\ messages[i].timestamp = expected[i].date \o " " \o expected[i].time

\* a file of one matching and one other line has been ingested
C8_Witness ==
    /\ ret.op = "extract_from_txt"
    /\ ret.value.status = "success"
    /\ Len(source) = 2
    /\ ~IsMessage(source[1])
    /\ Len(messages) = 1
    /\ messages[1].contact = "Alice"

\* C9: for every held message, length is the character count of the stored
\* body and word_count the number of its whitespace-delimited tokens.
C9_LengthAndWordsOfStoredBody ==
    \A i \in 1..Len(messages) :
        /\ messages[i].length = Len(messages[i].message)
        /\ messages[i].word_count = WordCount(messages[i].message)

\* the harmony scores of the held messages, one per message
ScoresOfHeld == [i \in 1..Len(messages) |-> calculate_harmony_score(messages[i].message)]

\* C10: analyze_messages on a non-empty list reports the mean, the minimum and
\* the maximum of the scores of the bodies of the held messages, each message
\* counted once.
C10_HarmonyOverHeldMessages ==
    (ret.op = "analyze_messages" /\ messages # <<>>) =>
        /\ ret.value.average_harmony = Round3(SumValues(ScoresOfHeld), Len(messages))
        /\ ret.value.min_harmony = MinValue(ScoresOfHeld)
        /\ ret.value.max_harmony = MaxValue(ScoresOfHeld)

\* C11: re-reading an exported batch gives the counts of the batch: the
\* analysis' total_messages is the number of exported messages, its
\* total_characters their summed length, and the exported harmony_scores
\* have one entry per message with the mean the analysis reports.
C11_ExportRoundTrip ==
    (/\ ret.op = "export_to_mega"
     /\ ret.value.status = "success"
     /\ messages # <<>>) =>
        LET document == JsonLoad(ret.written)
            lengths == [i \in 1..Len(document.messages) |-> document.messages[i].length]
        IN  /\ document.analysis.total_messages = Len(document.messages)
            /\ document.analysis.total_messages = Len(messages)
            /\ document.analysis.total_characters = SumValues(lengths)
            /\ Cardinality(DOMAIN document.harmony_scores) = Len(document.messages)
            /\ document.analysis.average_harmony =
                  Round3(SumValues(document.harmony_scores),
                         Cardinality(DOMAIN document.harmony_scores))

\* the timestamps of the held messages
HeldTimestamps == {messages[i].timestamp : i \in 1..Len(messages)}

\* C21: after any sequence of extract_from_txt and analyze_messages calls the
\* harmony_scores mapping holds scores of the held messages only: every key
\* is the timestamp of a held message, none is left from an earlier file, in
\* the extractor and in the exported document alike.
C21_ScoresOfHeldMessagesOnly ==
    /\ ret.op \in {"analyze_messages", "export_to_mega"} =>
          DOMAIN harmony_scores \subseteq HeldTimestamps
    /\ (ret.op = "export_to_mega" /\ ret.value.status = "success") =>
          DOMAIN ret.written.harmony_scores \subseteq HeldTimestamps

\* C14: the harmony score is a pure function of the text: whatever calls came
\* before, calculate_harmony_score and pipe_through_merkabah return the score
\* and the tier of the text alone, and neither changes messages or
\* harmony_scores.
C14_ScoringIsPure ==
    [][ret'.op \in {"calculate_harmony_score", "pipe_through_merkabah"} =>
           /\ messages' = messages
           /\ harmony_scores' = harmony_scores
           /\ ret'.op = "calculate_harmony_score" =>
                 ret'.value = [t \in PipeTexts |-> calculate_harmony_score(t)][ret'.argument]
           /\ ret'.op = "pipe_through_merkabah" =>
                 /\ ret'.value.harmony_score =
                       [t \in PipeTexts |-> calculate_harmony_score(t)][ret'.value.message]
                 /\ ret'.value.assigned_face = assign_face(ret'.value.harmony_score)
                 /\ ret'.value.action = TierOfFace(ret'.value.assigned_face)]_vars

\* a message piped after a file was extracted and analysed
C14_Witness ==
    /\ ret.op = "pipe_through_merkabah"
    /\ ret.value.message = "Hello there!"
    /\ messages # <<>>
    /\ harmony_scores # EmptyMap

\* C19: a failed extract_from_txt (file not found, or a read or decoding
\* error) returns a dict with status error and a message and leaves messages
\* and harmony_scores as they were; analyze_messages with no held messages
\* returns such a dict too and changes no state.
C19_FailureLeavesState ==
    [][/\ (ret'.op = "extract_from_txt" /\ ret'.value.status # "success") =>
             /\ ret'.value.status = "error"
             /\ "message" \in DOMAIN ret'.value
             /\ messages' = messages
             /\ harmony_scores' = harmony_scores
       /\ (ret'.op = "analyze_messages" /\ messages = <<>>) =>
             /\ "status" \in DOMAIN ret'.value
             /\ ret'.value.status = "error"
             /\ "message" \in DOMAIN ret'.value
             /\ messages' = messages
             /\ harmony_scores' = harmony_scores]_vars

\* a failed extraction on an extractor that holds messages and scores
C19_Witness ==
    /\ ret.op = "extract_from_txt"
    /\ ret.value.status = "error"
    /\ messages # <<>>
    /\ harmony_scores # EmptyMap

(***************************************************************************)
(* merkabah_whatsapp.py run as a program: main()                           *)
(*                                                                         *)
(* A run is its argument vector (the command, the file a path names, the   *)
(* words after the command), whether the default export path can be        *)
(* written, what it printed and the status it exited with.  main returns   *)
(* on every path and nothing calls sys.exit, so the interpreter exits      *)
(* with status 0 unless an exception leaves main.                          *)
(***************************************************************************)
NoFile == [state |-> "missing", entries |-> <<>>]

\* sys.argv[1:]: argc counts the arguments after the program name
Argv(argc, command, file, words) ==
    [argc |-> argc, command |-> command, file |-> file, words |-> words]

PipeWords == {<<"">>, <<"no">>, <<"Hello", "there!">>}

Argvs ==
    {Argv(0, "", NoFile, <<>>)}
        \cup {Argv(1, c, NoFile, <<>>) : c \in {"extract", "analyze", "export", "pipe", "help"}}
        \cup {Argv(2, "extract", f, <<>>) : f \in Files}
        \cup {Argv(1 + Len(w), "pipe", NoFile, w) : w \in PipeWords}
        \cup {Argv(2, "analyze", NoFile, <<"now">>)}

\* " ".join(words)
RECURSIVE Join(_)
Join(words) ==
    IF words = <<>> THEN ""
    ELSE IF Len(words) = 1 THEN words[1]
    ELSE words[1] \o " " \o Join(Tail(words))

Started(argv, writable) ==
    [state |-> "start", argv |-> argv, writable |-> writable]

\* the interpreter exits after main returned
Exited(printed, stdout) ==
    [state |-> "exited", argv |-> process.argv, writable |-> process.writable,
     printed |-> printed, stdout |-> stdout, status |-> 0]

\* command == "extract" and len(sys.argv) > 2
MainExtract ==
    /\ process.state = "start"
    /\ process.argv.argc >= 1
    /\ process.argv.command = "extract" /\ process.argv.argc >= 2
    /\ LET r == extract_from_txt(process.argv.file, messages)
       IN  /\ messages' = r.messages
           /\ ret' = [op |-> "extract_from_txt", value |-> r.value]
           /\ source' = process.argv.file.entries
           /\ process' = Exited(TRUE, r.value)
    /\ UNCHANGED harmony_scores

\* command == "analyze"
MainAnalyze ==
    /\ process.state = "start"
    /\ process.argv.argc >= 1
    /\ process.argv.command = "analyze"
    /\ LET r == analyze_messages(messages, harmony_scores)
       IN  /\ harmony_scores' = r.harmony_scores
           /\ ret' = [op |-> "analyze_messages", value |-> r.value]
           /\ process' = Exited(TRUE, r.value)
    /\ UNCHANGED <<messages, source>>

\* command == "export"
MainExport ==
    /\ process.state = "start"
    /\ process.argv.argc >= 1
    /\ process.argv.command = "export"
    /\ LET r == export_to_mega(messages, harmony_scores, process.writable)
       IN  /\ harmony_scores' = r.harmony_scores
           /\ ret' = [op |-> "export_to_mega", value |-> r.value, written |-> r.written]
           /\ process' = Exited(TRUE, r.value)
    /\ UNCHANGED <<messages, source>>

\* command == "pipe" and len(sys.argv) > 2
MainPipe ==
    /\ process.state = "start"
    /\ process.argv.argc >= 1
    /\ process.argv.command = "pipe" /\ process.argv.argc >= 2
    /\ LET r == pipe_through_merkabah(Join(process.argv.words))
       IN  /\ ret' = [op |-> "pipe_through_merkabah", value |-> r]
           /\ process' = Exited(TRUE, r)
    /\ UNCHANGED <<messages, harmony_scores, source>>

\* no argument: the usage lines
MainUsage ==
    /\ process.state = "start"
    /\ process.argv.argc = 0
    /\ process' = Exited(TRUE, [usage |-> TRUE])
    /\ UNCHANGED extractorVars

\* no branch of the if / elif chain applies: nothing is printed
MainNoBranch ==
    /\ process.state = "start"
    /\ process.argv.argc >= 1
    /\ ~(process.argv.command = "extract" /\ process.argv.argc >= 2)
    /\ process.argv.command # "analyze"
    /\ process.argv.command # "export"
    /\ ~(process.argv.command = "pipe" /\ process.argv.argc >= 2)
    /\ process' = Exited(FALSE, [usage |-> FALSE])
    /\ UNCHANGED extractorVars

\* a new process: extractor = WhatsAppExtractor()
InitCli ==
    /\ halfUp \in BOOLEAN
    /\ call = Argument("", 0)
    /\ InitExtractor
    /\ InitOrchestrator
    /\ env = {}
    /\ process \in {Started(argv, writable) : argv \in Argvs, writable \in BOOLEAN}

NextCli ==
    /\ \/ MainExtract
       \/ MainAnalyze
       \/ MainExport
       \/ MainPipe
       \/ MainUsage
       \/ MainNoBranch
    /\ UNCHANGED <<halfUp, scoreVars, orchVars, nodeVars>>

SpecCli == InitCli /\ [][NextCli]_vars

\* C18: extract <file> exits with a non-zero status when the file is not
\* found, and every other outcome of a subcommand exits with status zero.
C18_ExitStatus ==
    process.state = "exited" =>
        LET not_found == /\ process.argv.command = "extract"
                         /\ process.argv.argc >= 2
                         /\ process.argv.file.state = "missing"
        IN  /\ not_found => process.status # 0
            /\ ~not_found => process.status = 0

(***************************************************************************)
(* JoinityOrchestrator: the backend queries                                *)
(*                                                                         *)
(* A reply is what requests.post does for one call: it raises (timeout,    *)
(* connection failure), or it returns a response with a status code and a  *)
(* body; reading the text out of a body of another shape raises as well.   *)
(* A query is a function of whether its API key variable is set and of     *)
(* the reply; it yields the returned string, or the exception it lets out. *)
(***************************************************************************)
KnownFaces == {"MAN", "LION", "OX", "EAGLE"}

\* os.getenv: the faces whose query reads an API key from the environment
KeyedFaces == {"MAN", "LION", "EAGLE"}

Returned(value) == [raised |-> FALSE, value |-> value]

\* query_openai without the test of the status code
query_openai_unchecked(api_key, reply) ==
    IF ~api_key THEN Returned("[MAN] OpenAI API key not configured")
    ELSE IF reply.raised THEN Returned("[MAN] Error: " \o reply.detail)
    ELSE IF reply.body.well_formed THEN Returned(reply.body.text)
    ELSE Returned("[MAN] Error: " \o reply.body.detail)

query_openai(api_key, reply) ==
    IF ~api_key THEN Returned("[MAN] OpenAI API key not configured")
    ELSE IF reply.raised THEN Returned("[MAN] Error: " \o reply.detail)
    ELSE IF reply.status_code = 200
         THEN IF reply.body.well_formed THEN Returned(reply.body.text)
              ELSE Returned("[MAN] Error: " \o reply.body.detail)
    ELSE Returned("[MAN] OpenAI error: " \o ToString(reply.status_code))

query_anthropic(api_key, reply) ==
    IF ~api_key THEN Returned("[LION] Anthropic API key not configured")
    ELSE IF reply.raised THEN Returned("[LION] Error: " \o reply.detail)
    ELSE IF reply.status_code = 200
         THEN IF reply.body.well_formed THEN Returned(reply.body.text)
              ELSE Returned("[LION] Error: " \o reply.body.detail)
    ELSE Returned("[LION] Anthropic error: " \o ToString(reply.status_code))

\* query_ollama reading the body outside the try block
query_ollama_unguarded(reply) ==
    IF reply.raised THEN Returned("[OX] Ollama not running or error: " \o reply.detail)
    ELSE IF reply.status_code = 200
         THEN IF reply.body.well_formed THEN Returned(reply.body.text)
              ELSE [raised |-> TRUE, value |-> reply.body.detail]
    ELSE Returned("[OX] Ollama error: " \o ToString(reply.status_code))

query_ollama(reply) ==
    IF reply.raised THEN Returned("[OX] Ollama not running or error: " \o reply.detail)
    ELSE IF reply.status_code = 200
         THEN IF reply.body.well_formed THEN Returned(reply.body.text)
              ELSE Returned("[OX] Ollama not running or error: " \o reply.body.detail)
    ELSE Returned("[OX] Ollama error: " \o ToString(reply.status_code))

query_deepseek(api_key, reply) ==
    IF ~api_key THEN Returned("[EAGLE] DeepSeek API key not configured")
    ELSE IF reply.raised THEN Returned("[EAGLE] Error: " \o reply.detail)
    ELSE IF reply.status_code = 200
         THEN IF reply.body.well_formed THEN Returned(reply.body.text)
              ELSE Returned("[EAGLE] Error: " \o reply.body.detail)
    ELSE Returned("[EAGLE] DeepSeek error: " \o ToString(reply.status_code))

\* the if / elif chain of orchestrate: the query a known face is sent to
Query(face, api_key, reply) ==
    CASE face = "MAN" -> query_openai(api_key, reply)
      [] face = "LION" -> query_anthropic(api_key, reply)
      [] face = "OX" -> query_ollama(reply)
      [] face = "EAGLE" -> query_deepseek(api_key, reply)

\* the key test made by query_openai only
ReturnsWithoutRequest_openai_only(face) == face = "MAN" /\ face \notin env

\* the query of this face returns before any request when its key is not set
ReturnsWithoutRequest(face) == face \in KeyedFaces /\ face \notin env

\* calculate_harmony without the cap at 1.0
calculate_harmony_uncapped(held) ==
    IF DOMAIN held = {} THEN 0
    ELSE LET total_length == SumValues([f \in DOMAIN held |-> Len(held[f])])
             n == Cardinality(DOMAIN held)
         IN  Round3(total_length, n)

\* JoinityOrchestrator.calculate_harmony
calculate_harmony(held) ==
    IF DOMAIN held = {} THEN 0
    ELSE LET total_length == SumValues([f \in DOMAIN held |-> Len(held[f])])
             n == Cardinality(DOMAIN held)
         IN  \* min(1.0, avg_length / 1000.0), then round(harmony, 3)
             Round3(Min2(1000 * n, total_length), n)

(***************************************************************************)
(* Inputs of the orchestrator                                              *)
(***************************************************************************)
Body(text) == [well_formed |-> TRUE, text |-> text]
Malformed(detail) == [well_formed |-> FALSE, detail |-> detail]
Response(code, body) == [raised |-> FALSE, status_code |-> code, body |-> body]
Raises(detail) == [raised |-> TRUE, detail |-> detail]

Replies ==
    { Response(200, Body("It depends.")),
      Response(200, Body(Rep("All is one. ", 200))),
      Response(200, Malformed("'choices'")),
      Response(500, Malformed("Expecting value")),
      Raises("Read timed out.") }

NoReply == [raised |-> FALSE, status_code |-> 0, body |-> Malformed("")]

\* the ids explicit face lists are drawn from: a face that reads an API key,
\* the face that reads none, and a string that names no face
FaceIds == {"MAN", "OX", "DOVE"}

RECURSIVE FaceLists(_)
FaceLists(n) ==
    IF n = 0 THEN {<<>>}
    ELSE LET shorter == FaceLists(n - 1)
         IN  shorter \cup {Append(fs, f) : fs \in shorter, f \in FaceIds}

\* faces = None stands for all four faces
DefaultFaces == <<"MAN", "LION", "OX", "EAGLE">>

FaceArguments == FaceLists(MaxFaces) \cup {DefaultFaces}

Prompts == {"What is the meaning of life?"}

(***************************************************************************)
(* JoinityOrchestrator.orchestrate, one step per blocking point            *)
(***************************************************************************)
\* the entry of orchestrate without the reset of self.responses
Orchestrate_keeping_responses ==
    /\ pc = "idle"
    /\ \E p \in Prompts, fs \in FaceArguments :
          /\ prompt' = p
          /\ faces' = fs
    /\ idx' = 1
    /\ pc' = "loop"
    /\ result' = NoResult
    /\ sent' = <<>>
    /\ seen' = EmptyMap
    /\ UNCHANGED <<env, harmony_score, inflight, responses>>

\* entry: faces defaulted, self.responses = {}
Orchestrate ==
    /\ pc = "idle"
    /\ \E p \in Prompts, fs \in FaceArguments :
          /\ prompt' = p
          /\ faces' = fs
    /\ responses' = EmptyMap
    /\ idx' = 1
    /\ pc' = "loop"
    /\ result' = NoResult
    /\ sent' = <<>>
    /\ seen' = EmptyMap
    /\ UNCHANGED <<env, harmony_score, inflight>>

\* self.responses = {face: value}
Store_replacing(held, face, value) == [f \in {face} |-> value]

\* self.responses[face] = value
Store(held, face, value) ==
    [f \in DOMAIN held \cup {face} |-> IF f = face THEN value ELSE held[f]]

\* the record of what the query to face was answered and what it returned
Observe(face, reply, value) ==
    [f \in DOMAIN seen \cup {face} |->
        LET before == IF f \in DOMAIN seen THEN seen[f] ELSE <<>>
        IN  IF f = face THEN Append(before, [reply |-> reply, value |-> value])
            ELSE before]

\* the query of faces[idx] came back with outcome r: its value is stored and
\* the loop moves on, or its exception leaves orchestrate
Collect(face, reply, r) ==
    IF r.raised
    THEN /\ result' = [status |-> "raised"]
         /\ pc' = "idle"
         /\ UNCHANGED <<responses, idx, seen>>
    ELSE /\ responses' = Store(responses, face, r.value)
         /\ seen' = Observe(face, reply, r.value)
         /\ idx' = idx + 1
         /\ pc' = "loop"
         /\ UNCHANGED result

\* a loop that stays on an id that names no face
SkipFace_staying ==
    /\ pc = "loop"
    /\ idx <= Len(faces)
    /\ faces[idx] \notin KnownFaces
    /\ UNCHANGED <<idx, pc, env, prompt, faces, responses, harmony_score, result, inflight,
                   sent, seen>>

\* a loop iteration on a face that is none of the four: no branch is taken
SkipFace ==
    /\ pc = "loop"
    /\ idx <= Len(faces)
    /\ faces[idx] \notin KnownFaces
    /\ idx' = idx + 1
    /\ UNCHANGED <<pc, env, prompt, faces, responses, harmony_score, result, inflight,
                   sent, seen>>

\* a loop iteration whose query returns without a request: the key is not set
QueryWithoutKey ==
    /\ pc = "loop"
    /\ idx <= Len(faces)
    /\ faces[idx] \in KnownFaces
    /\ ReturnsWithoutRequest(faces[idx])
    /\ Collect(faces[idx], NoReply, Query(faces[idx], FALSE, NoReply))
    /\ UNCHANGED <<env, prompt, faces, harmony_score, inflight, sent>>

\* a loop iteration that issues its request and goes on to the next face
SendRequest_without_waiting ==
    /\ pc = "loop"
    /\ idx <= Len(faces)
    /\ faces[idx] \in KnownFaces
    /\ ~ReturnsWithoutRequest(faces[idx])
    /\ inflight' = inflight \cup {faces[idx]}
    /\ sent' = Append(sent, faces[idx])
    /\ idx' = idx + 1
    /\ UNCHANGED <<pc, env, prompt, faces, responses, harmony_score, result, seen>>

\* a loop iteration whose query calls requests.post and blocks in it
SendRequest ==
    /\ pc = "loop"
    /\ idx <= Len(faces)
    /\ faces[idx] \in KnownFaces
    /\ ~ReturnsWithoutRequest(faces[idx])
    /\ inflight' = inflight \cup {faces[idx]}
    /\ sent' = Append(sent, faces[idx])
    /\ pc' = "wait"
    /\ UNCHANGED <<env, prompt, faces, idx, responses, harmony_score, result, seen>>

\* a query that posts its request once more after an exception
ReceiveReply_retrying ==
    /\ pc = "wait"
    /\ \E reply \in Replies :
          IF reply.raised /\ Cardinality({i \in 1..Len(sent) : sent[i] = faces[idx]}) < 3
          THEN /\ sent' = Append(sent, faces[idx])
               /\ UNCHANGED <<pc, idx, responses, result, seen, inflight>>
          ELSE /\ Collect(faces[idx], reply, Query(faces[idx], TRUE, reply))
               /\ inflight' = inflight \ {faces[idx]}
               /\ UNCHANGED sent
    /\ UNCHANGED <<env, prompt, faces, harmony_score>>

\* requests.post returns or raises; the query finishes and its value is stored
ReceiveReply ==
    /\ pc = "wait"
    /\ \E reply \in Replies :
          Collect(faces[idx], reply, Query(faces[idx], TRUE, reply))
    /\ inflight' = inflight \ {faces[idx]}
    /\ UNCHANGED <<env, prompt, faces, harmony_score, sent>>

\* after the loop: the harmony score and the returned dict
Finish ==
    /\ pc = "loop"
    /\ idx > Len(faces)
    /\ harmony_score' = calculate_harmony(responses)
    /\ result' = [status |-> "complete", prompt |-> prompt, responses |-> responses,
                  harmony_score |-> calculate_harmony(responses)]
    /\ pc' = "idle"
    /\ UNCHANGED <<env, prompt, faces, idx, responses, inflight, sent, seen>>

InitOrch ==
    /\ halfUp \in BOOLEAN
    /\ call = Argument("", 0)
    /\ InitExtractor
    /\ InitOrchestrator
    /\ env \in SUBSET KeyedFaces
    /\ process = NoProcess

NextOrch ==
    /\ \/ Orchestrate
       \/ SkipFace
       \/ QueryWithoutKey
       \/ SendRequest
       \/ ReceiveReply
       \/ Finish
    /\ UNCHANGED <<halfUp, scoreVars, extractorVars, cliVars, nodeVars>>

SpecOrch == InitOrch /\ [][NextOrch]_vars

\* a step of a call of orchestrate that is under way
Running ==
    /\ \/ SkipFace
       \/ QueryWithoutKey
       \/ SendRequest
       \/ ReceiveReply
       \/ Finish
    /\ UNCHANGED <<halfUp, scoreVars, extractorVars, cliVars, nodeVars>>

\* orchestrate under the assumption that a call under way keeps running and
\* that requests.post, given its timeout argument, returns or raises
\* the environments of the fair specification: no API key set, or the OpenAI
\* key alone (the three queries that read a key have the same shape)
InitOrchFair == InitOrch /\ env \in SUBSET {"MAN"}

SpecOrchFair == InitOrchFair /\ [][NextOrch]_vars /\ WF_vars(Running)

(***************************************************************************)
(* JoinityOrchestrator.configure_node, next to orchestrate                 *)
(***************************************************************************)
\* the value os.getenv returns for an API key variable that is set
EnvKey == "sk-env"

ConfiguredModels == {"gpt-4o"}
ConfiguredEndpoints == {"azure"}
\* api_key: None or "" (both falsy), a key of its own, the key of the environment
ConfiguredKeys == {"", "sk-node", EnvKey}

\* the model and the credential the query of a face puts in its request: the
\* default of its model parameter (orchestrate passes the prompt only) and
\* the value of its environment variable; query_ollama sends no credential
Request(face) ==
    CASE face = "MAN" -> [model |-> "gpt-4", api_key |-> EnvKey]
      [] face = "LION" -> [model |-> "claude-3-sonnet", api_key |-> EnvKey]
      [] face = "OX" -> [model |-> "mistral", api_key |-> ""]
      [] face = "EAGLE" -> [model |-> "deepseek-chat", api_key |-> EnvKey]

\* configure_node(face, model, endpoint, api_key): the returned dict and the
\* value self.nodes has afterwards
configure_node(held, face, model, endpoint, api_key) ==
    IF face \in DOMAIN held
    THEN [value |-> [status |-> "configured", face |-> face, model |-> model],
          nodes |-> [held EXCEPT ![face] =
                        [@ EXCEPT !.model = model,
                                  !.endpoint = endpoint,
                                  !.api_key = IF api_key # "" THEN api_key ELSE @]]]
    ELSE [value |-> [status |-> "error", message |-> "Face " \o face \o " not found"],
          nodes |-> held]

\* a call of configure_node between two calls of orchestrate
ConfigureNode ==
    /\ pc = "idle"
    /\ \E face \in FaceIds, model \in ConfiguredModels, endpoint \in ConfiguredEndpoints,
          api_key \in ConfiguredKeys :
          LET r == configure_node(nodes, face, model, endpoint, api_key)
          IN  /\ nodes' = r.nodes
              /\ result' = r.value
    /\ UNCHANGED <<pc, env, prompt, faces, idx, responses, harmony_score, inflight,
                   sent, seen>>
    /\ UNCHANGED <<halfUp, scoreVars, extractorVars, cliVars>>

NextNodes ==
    \/ NextOrch
    \/ ConfigureNode

\* one orchestrator reconfigured and called in turn
SpecNodes == InitOrchFair /\ [][NextNodes]_vars

\* C22: nodes changes only through configure_node, and the change takes
\* effect: a call on a known face changes that face's model, endpoint and
\* credential only, a call on an unknown face returns an error and changes
\* nothing, orchestrate changes nothing, and a request of orchestrate carries
\* the model and the credential its face's descriptor holds.
C22_NodesTakeEffect ==
    /\ [][/\ nodes' # nodes =>
                /\ result'.status = "configured"
                /\ \A f \in KnownFaces \ {result'.face} : nodes'[f] = nodes[f]
                /\ nodes'[result'.face].specialty = nodes[result'.face].specialty
                /\ nodes'[result'.face].model = result'.model
          /\ (result'.status = "error" /\ result' # result) => nodes' = nodes
          /\ pc' # pc => nodes' = nodes]_vars
    /\ [](\A f \in inflight :
              /\ Request(f).model = nodes[f].model
              /\ Request(f).api_key = nodes[f].api_key)

\* the ids asked for in the current call
Requested == {faces[i] : i \in 1..Len(faces)}

\* what the last query to face f in this round was answered and returned
LastSeen(f) == seen[f][Len(seen[f])]

KeyNotConfigured ==
    [MAN |-> "[MAN] OpenAI API key not configured",
     LION |-> "[LION] Anthropic API key not configured",
     EAGLE |-> "[EAGLE] DeepSeek API key not configured"]

IsSuccess(reply) == ~reply.raised /\ reply.status_code = 200 /\ reply.body.well_formed

\* C3: orchestrate never leaves by an exception, whatever each backend does
\* (no credential, non-success status, timeout, malformed body, success), and
\* the returned responses hold every backend's outcome under that backend's
\* id: the missing-credential text of one next to the success text of another.
C3_NeverFailsAsAWhole ==
    /\ result.status \in {"none", "complete"}
    /\ result.status = "complete" =>
          \A f \in DOMAIN seen :
              /\ f \in DOMAIN result.responses
              /\ result.responses[f] = LastSeen(f).value
              /\ (f \in KeyedFaces /\ f \notin env) =>
                    result.responses[f] = KeyNotConfigured[f]
              /\ (~(f \in KeyedFaces /\ f \notin env) /\ IsSuccess(LastSeen(f).reply)) =>
                    result.responses[f] = LastSeen(f).reply.body.text
              /\ (~(f \in KeyedFaces /\ f \notin env) /\ ~IsSuccess(LastSeen(f).reply)) =>
                    SubSeq(result.responses[f], 1, Len(f) + 2) = "[" \o f \o "]"

\* a round in which MAN had no credential and OX answered with a text
C3_Witness ==
    /\ result.status = "complete"
    /\ "MAN" \notin env
    /\ DOMAIN result.responses = {"MAN", "OX"}
    /\ result.responses["MAN"] = "[MAN] OpenAI API key not configured"
    /\ result.responses["OX"] = "It depends."

\* C4 as stated: the keys of the returned responses are the requested ids.
C4_KeysAreRequestedIds ==
    result.status = "complete" => DOMAIN result.responses = Requested

\* C4, amended: the keys of the returned responses are the requested ids that
\* name one of the four faces; each holds the value its last query returned.
C4_KeysAreRequestedFaces ==
    result.status = "complete" =>
        /\ DOMAIN result.responses = Requested \cap KnownFaces
        /\ DOMAIN seen = DOMAIN result.responses
        /\ \A f \in DOMAIN result.responses : result.responses[f] = LastSeen(f).value

\* a round asked for a face and for an id that names none
C4_Witness ==
    /\ result.status = "complete"
    /\ Requested = {"MAN", "DOVE"}
    /\ DOMAIN result.responses = {"MAN"}

RECURSIVE TotalLength(_, _)
TotalLength(ids, held) ==
    IF ids = {} THEN 0
    ELSE LET f == CHOOSE x \in ids : TRUE
         IN  Len(held[f]) + TotalLength(ids \ {f}, held)

\* C5: the aggregate harmony is min(1.0, (total length of the collected
\* values / their number) / 1000) rounded to 3 decimals, lies in [0, 1], and
\* is computed from the responses collected in this round.
C5_AggregateHarmony ==
    result.status = "complete" =>
        LET held == result.responses
            n == Cardinality(DOMAIN held)
            total == TotalLength(DOMAIN held, held)
        IN  /\ result.harmony_score \in 0..1000
            /\ harmony_score = result.harmony_score
            /\ held = responses
            /\ DOMAIN held = DOMAIN seen
            /\ n > 0 =>
                  /\ total >= 1000 * n => result.harmony_score = 1000
                  /\ total < 1000 * n => result.harmony_score = Round3(total, n)

\* two values were collected and their average length is beyond the target
C5_Witness ==
    /\ result.status = "complete"
    /\ Cardinality(DOMAIN result.responses) = 2
    /\ \E f \in DOMAIN result.responses : Len(result.responses[f]) < 100
    /\ result.harmony_score = 1000

\* every query to one face was answered alike in this round
FixedOutcomes == \A f \in DOMAIN seen : \A i \in 1..Len(seen[f]) : seen[f][i] = seen[f][1]

\* C6: with the answer of each backend fixed, the returned responses and the
\* aggregate harmony are determined by the set of requested faces: they are
\* the same in whichever order the faces are listed and answered.
C6_OrderIndependent ==
    (result.status = "complete" /\ FixedOutcomes) =>
        LET expected == [f \in Requested \cap KnownFaces |-> seen[f][1].value]
            n == Cardinality(DOMAIN expected)
            total == TotalLength(DOMAIN expected, expected)
        IN  /\ result.responses = expected
            /\ result.harmony_score =
                  IF n = 0 THEN 0 ELSE Round3(Min2(total, 1000 * n), n)

\* OX was listed and answered before MAN, against the order of the default list
C6_Witness ==
    /\ result.status = "complete"
    /\ faces = <<"OX", "MAN">>
    /\ sent = <<"OX", "MAN">>
    /\ FixedOutcomes
    /\ result.responses["OX"] # result.responses["MAN"]

\* the known faces of the list whose query issues a request
Issuing == {f \in Requested \cap KnownFaces : ~ReturnsWithoutRequest(f)}

C15_NoRequestWithoutKey ==
    \A f \in KeyedFaces \ env :
        /\ f \notin inflight
        /\ \A i \in 1..Len(sent) : sent[i] # f
        /\ f \in DOMAIN seen =>
              \A i \in 1..Len(seen[f]) :
                  /\ seen[f][i].reply = NoReply
                  /\ seen[f][i].value = KeyNotConfigured[f]
        /\ (f \in DOMAIN responses /\ f \in Requested /\ result.status = "complete") =>
              responses[f] = KeyNotConfigured[f]

\* all four faces asked: Anthropic has no key and gets no request, the
\* others are sent theirs
C15_Witness ==
    /\ result.status = "complete"
    /\ faces = DefaultFaces
    /\ env = {"MAN", "EAGLE"}
    /\ sent = <<"MAN", "OX", "EAGLE">>
    /\ responses["LION"] = "[LION] Anthropic API key not configured"

HasPrefix(value, prefix) ==
    Len(value) >= Len(prefix) /\ SubSeq(value, 1, Len(prefix)) = prefix

\* the text a query returns for a status code other than 200, before the code
StatusErrorPrefix ==
    [MAN |-> "[MAN] OpenAI error: ",
     LION |-> "[LION] Anthropic error: ",
     OX |-> "[OX] Ollama error: ",
     EAGLE |-> "[EAGLE] DeepSeek error: "]

\* the text a query returns for an exception, before the exception's text
ExceptionPrefix ==
    [MAN |-> "[MAN] Error: ",
     LION |-> "[LION] Error: ",
     OX |-> "[OX] Ollama not running or error: ",
     EAGLE |-> "[EAGLE] Error: "]

\* what a caller can tell from the returned string
OutcomeKind(face, value) ==
    IF face \in KeyedFaces /\ value = KeyNotConfigured[face] THEN "MissingCredential"
    ELSE IF HasPrefix(value, StatusErrorPrefix[face]) THEN "StatusError"
    ELSE IF HasPrefix(value, ExceptionPrefix[face]) THEN "Exception"
    ELSE "Text"

MalformedBody(reply) == ~reply.raised /\ reply.status_code = 200 /\ ~reply.body.well_formed

\* C16 as stated: a status other than 200, an unreachable backend and a
\* malformed body are three distinct outcomes, and a success text comes only
\* with status 200 and a well-formed body.
C16_TypedOutcomes ==
    \A f \in DOMAIN seen : \A i, j \in 1..Len(seen[f]) :
        LET a == seen[f][i]
            b == seen[f][j]
        IN  /\ (MalformedBody(a.reply) /\ b.reply.raised) =>
                  OutcomeKind(f, a.value) # OutcomeKind(f, b.value)
            /\ OutcomeKind(f, a.value) = "Text" => IsSuccess(a.reply)

\* C16, amended: a status other than 200 yields the face's status-error text
\* ending in the code; an exception of the request and a 200 body of another
\* shape both yield the face's exception text followed by the exception's
\* message; the body's text is returned only for status 200 and a
\* well-formed body.
C16_OutcomeTexts ==
    \A f \in DOMAIN seen : \A i \in 1..Len(seen[f]) :
        LET a == seen[f][i]
        IN  a.reply # NoReply =>
              /\ (~a.reply.raised /\ a.reply.status_code # 200) =>
                    /\ a.value = StatusErrorPrefix[f] \o ToString(a.reply.status_code)
                    /\ OutcomeKind(f, a.value) = "StatusError"
              /\ a.reply.raised =>
                    /\ a.value = ExceptionPrefix[f] \o a.reply.detail
                    /\ OutcomeKind(f, a.value) = "Exception"
              /\ MalformedBody(a.reply) =>
                    /\ a.value = ExceptionPrefix[f] \o a.reply.body.detail
                    /\ OutcomeKind(f, a.value) = "Exception"
              /\ IsSuccess(a.reply) <=> OutcomeKind(f, a.value) = "Text"
              /\ IsSuccess(a.reply) => a.value = a.reply.body.text

\* one face asked twice: a malformed body, then a timeout, told apart only
\* by the message that follows the same prefix
C16_Witness ==
    /\ result.status = "complete"
    /\ faces = <<"OX", "OX">>
    /\ MalformedBody(seen["OX"][1].reply)
    /\ seen["OX"][2].reply.raised
    /\ OutcomeKind("OX", seen["OX"][1].value) = OutcomeKind("OX", seen["OX"][2].value)

Occurrences(seq, x) == Cardinality({i \in 1..Len(seq) : seq[i] = x})

\* C17 as stated: in one round no backend receives more than one request.
C17_AtMostOneRequest ==
    \A f \in KnownFaces : Occurrences(sent, f) <= 1

\* C17, amended: in one round a backend receives exactly one request for each
\* entry of the list that names it and has been reached (none when its key
\* is not set), whatever the earlier requests came to: nothing is retried.
C17_OneRequestPerEntry ==
    \A f \in KnownFaces :
        Occurrences(sent, f) =
            IF ReturnsWithoutRequest(f) THEN 0
            ELSE Occurrences(SubSeq(faces, 1, idx - 1), f)
                    + (IF pc = "wait" /\ faces[idx] = f THEN 1 ELSE 0)

\* a face listed twice whose first request timed out: two requests in all
C17_Witness ==
    /\ result.status = "complete"
    /\ faces = <<"OX", "OX">>
    /\ sent = <<"OX", "OX">>
    /\ seen["OX"][1].reply.raised
    /\ IsSuccess(seen["OX"][2].reply)

\* C20: when every request is answered or times out, a call of orchestrate
\* returns its result; a face whose request timed out holds its error text,
\* and every other requested face was queried and holds its own outcome.
C20_EventuallyReturns ==
    /\ (pc # "idle") ~> (pc = "idle" /\ result.status = "complete")
    /\ [](pc = "wait" => inflight = {faces[idx]})
    /\ [](result.status = "complete" =>
            \A f \in Requested \cap KnownFaces :
                /\ f \in DOMAIN seen /\ f \in DOMAIN result.responses
                /\ result.responses[f] = LastSeen(f).value
                /\ LastSeen(f).reply.raised =>
                      result.responses[f] = ExceptionPrefix[f] \o LastSeen(f).reply.detail
                /\ IsSuccess(LastSeen(f).reply) =>
                      result.responses[f] = LastSeen(f).reply.body.text)

\* the first face timed out, the second was still queried and answered
C20_Witness ==
    /\ pc = "idle"
    /\ result.status = "complete"
    /\ faces = <<"MAN", "OX">>
    /\ seen["MAN"][1].reply.raised
    /\ IsSuccess(seen["OX"][1].reply)
    /\ result.responses["MAN"] = "[MAN] Error: Read timed out."
    /\ result.responses["OX"] = "It depends."

====
